---- MODULE Spec2Model ----
(***************************************************************************)
(* rustybin: the per-IP rate limiter (src/main.rs, AppRateLimiter and the  *)
(* rate_limit middleware) and the paste repository (src/db.rs, Database).  *)
(*                                                                         *)
(* Time.  Instant::now() is a monotonic clock with sub-second resolution;  *)
(* the model counts it in ticks of 1/TicksPerSec second.  Durations are    *)
(* tick counts; Duration::as_secs truncates to whole seconds.              *)
(***************************************************************************)
EXTENDS Integers, Sequences, FiniteSets, TLC

\* ---------------------------------------------------------------- bounds
\* AppRateLimiter::new(read_limit, create_limit, delete_limit): the limits of
\* the instance under test (main configures 45, 15 and 15 by default)
read_limit == 2
create_limit == 1
delete_limit == 1

TicksPerSec == 2                       \* clock resolution: ticks per second

\* ------------------------------------------------------- program constants
reset_interval == 60 * TicksPerSec     \* Duration::from_secs(60)

Threads == {"t1", "t2"}                \* concurrent request tasks
NoThread == "-"
Ips == {"ip1", "ip2"}
NoIp == "-"
Methods == {"GET", "POST", "DELETE", "PUT"}
NoMethod == "-"
Classes == {"read", "create", "delete"}
NoClass == "-"
\* the calls followed: one client uses every method, the other reads and creates
Calls == ({"ip1"} \X Methods) \cup ({"ip2"} \X {"GET", "POST"})
\* the instants the clock is sampled at: the start, one tick before the end
\* of the first window, its end, and the end of the second window
TimePoints == {0, reset_interval - 1, reset_interval, 2 * reset_interval}

NoRet == [tag |-> "none", val |-> 0]
Ok(v) == [tag |-> "Ok", val |-> v]
Err(v) == [tag |-> "Err", val |-> v]

VARIABLES
    read_limiter, create_limiter, delete_limiter, \* HashMap<IpAddr, u32>
    last_reset,                                   \* Instant
    mutex,          \* holder of each Mutex: last_reset and the three maps
    instant,        \* the monotonic clock read by Instant::now()
    pc, ip, method, now, limiter, limit, ret,     \* per task: position, locals
    allowed,        \* history: per class and ip, the Ok values of this window
    rolled,         \* history: per task, whether its call reset the counters
    pastes,         \* the table pastes: id -> row
    poisoned,       \* whether Database::connection (a Mutex) is poisoned
    utc,            \* the wall clock read by Utc::now()
    op, id, data, language, created_at, dbret, \* per task: the Database call
    stmt_err,       \* per task: whether SQLite failed the statement of its call
    created,        \* history: id -> the Paste the last successful create returned
    expect,         \* history: per task, created[id] when its get ran
    req,            \* per task: the HTTP request being served
    reset_after,    \* per task: the value get_reset_time returned
    status          \* per task: the HTTP status of the response

limiterVars == <<read_limiter, create_limiter, delete_limiter, last_reset>>
clockVars == <<instant>>
taskVars == <<pc, ip, method, now, limiter, limit, ret>>
histVars == <<allowed, rolled>>
rlVars == <<limiterVars, mutex, clockVars, ip, method, now, limiter, limit, ret, histVars>>
storeVars == <<pastes, poisoned>>
callVars == <<op, id, data, language, created_at, dbret, stmt_err>>
dbVars == <<storeVars, utc, callVars, created, expect>>
httpVars == <<req, reset_after, status>>
vars == <<pc, rlVars, dbVars, httpVars>>

\* ------------------------------------------------------------- helpers
\* Instant::duration_since saturates to zero when the argument is later
DurationSince(a, b) == IF a >= b THEN a - b ELSE 0
SaturatingSub(a, b) == IF a >= b THEN a - b ELSE 0
AsSecs(d) == d \div TicksPerSec

EmptyMap == << >>
\* the count map.entry(ip).or_insert(0) refers to
Count(map, i) == IF i \in DOMAIN map THEN map[i] ELSE 0
OrInsert(map, i, v) == IF i \in DOMAIN map THEN map ELSE (i :> v) @@ map

Limiter(cls) ==
    CASE cls = "read" -> read_limiter
      [] cls = "create" -> create_limiter
      [] cls = "delete" -> delete_limiter

LimitOf(cls) ==
    CASE cls = "read" -> read_limit
      [] cls = "create" -> create_limit
      [] cls = "delete" -> delete_limit

LockName(cls) ==
    CASE cls = "read" -> "read_limiter"
      [] cls = "create" -> "create_limiter"
      [] cls = "delete" -> "delete_limiter"

SetLimiter(cls, m) ==
    /\ read_limiter' = IF cls = "read" THEN m ELSE read_limiter
    /\ create_limiter' = IF cls = "create" THEN m ELSE create_limiter
    /\ delete_limiter' = IF cls = "delete" THEN m ELSE delete_limiter

\* a fallback arm that sends the other methods to the strictest class
ClassOfStrictFallback(m) ==
    CASE m = "GET" -> "read"
      [] m = "POST" -> "create"
      [] m = "DELETE" -> "delete"
      [] OTHER -> "create"

\* match method { GET => read, POST => create, DELETE => delete, _ => read }
ClassOf(m) ==
    CASE m = "GET" -> "read"
      [] m = "POST" -> "create"
      [] m = "DELETE" -> "delete"
      [] OTHER -> "read"

\* a lock that does not exclude
CanLockAlways(name) == TRUE

\* Mutex::lock blocks until the mutex is free
CanLock(name) == mutex[name] = NoThread

\* the comparison off by one: if *count > limit
OverLimitOffByOne(count, lim) == count > lim

\* if *count >= limit
OverLimit(count, lim) == count >= lim

\* *count += 1  (u32; reached only with count < limit, so it cannot overflow)
Increment(count) == count + 1

\* the remaining count taken before the increment
RemainingStale(lim, count) == lim - count + 1

\* limit - *count  (u32; reached only after the increment, with count <= limit)
Remaining(lim, count) == lim - count

\* the window test with > in place of >=
ResetDueStrict(n, lr) == DurationSince(n, lr) > reset_interval

\* now.duration_since(*last_reset) >= self.reset_interval
ResetDue(n, lr) == DurationSince(n, lr) >= reset_interval

\* self.reset_interval.saturating_sub(elapsed).as_secs() as u32
RetryAfter(n, lr) == AsSecs(SaturatingSub(reset_interval, DurationSince(n, lr)))

\* ------------------------------------------------------------------ Init
LimiterInit ==
    /\ read_limiter = EmptyMap
    /\ create_limiter = EmptyMap
    /\ delete_limiter = EmptyMap
    /\ instant = 0
    /\ last_reset = 0
    /\ mutex = [n \in {"last_reset", "read_limiter", "create_limiter", "delete_limiter"} |-> NoThread]
    /\ pc = [t \in Threads |-> "idle"]
    /\ ip = [t \in Threads |-> NoIp]
    /\ method = [t \in Threads |-> NoMethod]
    /\ now = [t \in Threads |-> 0]
    /\ limiter = [t \in Threads |-> NoClass]
    /\ limit = [t \in Threads |-> 0]
    /\ ret = [t \in Threads |-> NoRet]
    /\ allowed = [c \in Classes |-> [i \in Ips |-> << >>]]
    /\ rolled = [t \in Threads |-> FALSE]

\* ------------------------------------------------- the clock (environment)
Tick ==
    /\ \E p \in TimePoints : p > instant /\ instant' = p
    /\ UNCHANGED <<limiterVars, mutex, taskVars, histVars>>

\* ------------------------------------------- AppRateLimiter::check_and_update
\* a task enters check_and_update(&ip, &method):  let now = Instant::now();
CallCheckAndUpdateOf(t, calls) ==
    /\ pc[t] = "idle"
    /\ \E c \in calls :
         /\ ip' = [ip EXCEPT ![t] = c[1]]
         /\ method' = [method EXCEPT ![t] = c[2]]
    /\ now' = [now EXCEPT ![t] = instant]
    /\ pc' = [pc EXCEPT ![t] = "cu_lock"]
    /\ UNCHANGED <<limiterVars, mutex, clockVars, limiter, limit, ret, histVars>>

CallCheckAndUpdate(t) == CallCheckAndUpdateOf(t, Calls)

\* let mut last_reset = self.last_reset.lock().unwrap();
\* if now.duration_since(*last_reset) >= self.reset_interval {
LockLastReset(t) ==
    /\ pc[t] = "cu_lock"
    /\ CanLock("last_reset")
    /\ mutex' = [mutex EXCEPT !["last_reset"] = t]
    /\ pc' = [pc EXCEPT ![t] = IF ResetDue(now[t], last_reset) THEN "cu_clear_read" ELSE "cu_lock_map"]
    /\ rolled' = [rolled EXCEPT ![t] = ResetDue(now[t], last_reset)]
    /\ UNCHANGED <<limiterVars, clockVars, ip, method, now, limiter, limit, ret, allowed>>

\* self.<class>_limiter.lock().unwrap().clear();  the guard is a temporary,
\* dropped at the end of the statement
ClearLimiter(t, cls, at, next) ==
    /\ pc[t] = at
    /\ CanLock(LockName(cls))
    /\ SetLimiter(cls, EmptyMap)
    /\ allowed' = [allowed EXCEPT ![cls] = [i \in Ips |-> << >>]]
    /\ pc' = [pc EXCEPT ![t] = next]
    /\ UNCHANGED <<last_reset, mutex, clockVars, ip, method, now, limiter, limit, ret, rolled>>

ClearRead(t) == ClearLimiter(t, "read", "cu_clear_read", "cu_clear_create")
ClearCreate(t) == ClearLimiter(t, "create", "cu_clear_create", "cu_clear_delete")
ClearDelete(t) == ClearLimiter(t, "delete", "cu_clear_delete", "cu_set_reset")

\* *last_reset = now;
SetLastReset(t) ==
    /\ pc[t] = "cu_set_reset"
    /\ last_reset' = now[t]
    /\ pc' = [pc EXCEPT ![t] = "cu_lock_map"]
    /\ UNCHANGED <<read_limiter, create_limiter, delete_limiter, mutex, clockVars,
                   ip, method, now, limiter, limit, ret, histVars>>

\* let (limiter, limit) = match method { ... };
\* let mut map = limiter.lock().unwrap();
\* let count = map.entry(*ip).or_insert(0);
\* if *count >= limit {
Entry(t) ==
    /\ pc[t] = "cu_lock_map"
    /\ LET cls == ClassOf(method[t])
       IN /\ CanLock(LockName(cls))
          /\ limiter' = [limiter EXCEPT ![t] = cls]
          /\ limit' = [limit EXCEPT ![t] = LimitOf(cls)]
          /\ mutex' = [mutex EXCEPT ![LockName(cls)] = t]
          /\ SetLimiter(cls, OrInsert(Limiter(cls), ip[t], 0))
          /\ pc' = [pc EXCEPT ![t] =
                      IF OverLimit(Count(Limiter(cls), ip[t]), LimitOf(cls)) THEN "cu_deny" ELSE "cu_incr"]
    /\ UNCHANGED <<last_reset, clockVars, ip, method, now, ret, histVars>>

\* a return that drops the map guard and keeps last_reset locked
ReleaseMapOnly(t) ==
    mutex' = [n \in DOMAIN mutex |->
                IF mutex[n] = t /\ n # "last_reset" THEN NoThread ELSE mutex[n]]

\* the guards map and last_reset are dropped when the function returns
ReleaseBoth(t) ==
    mutex' = [n \in DOMAIN mutex |-> IF mutex[n] = t THEN NoThread ELSE mutex[n]]

\* Err(remaining as u32)
Deny(t) ==
    /\ pc[t] = "cu_deny"
    /\ ret' = [ret EXCEPT ![t] = Err(RetryAfter(now[t], last_reset))]
    /\ ReleaseBoth(t)
    /\ pc' = [pc EXCEPT ![t] = "cu_done"]
    /\ method' = [method EXCEPT ![t] = NoMethod]
    /\ now' = [now EXCEPT ![t] = 0]
    /\ UNCHANGED <<limiterVars, clockVars, ip, limiter, limit, histVars>>

\* *count += 1; Ok(limit - *count)
Allow(t) ==
    /\ pc[t] = "cu_incr"
    /\ LET cnt == Increment(Count(Limiter(limiter[t]), ip[t]))
       IN /\ SetLimiter(limiter[t], (ip[t] :> cnt) @@ Limiter(limiter[t]))
          /\ ret' = [ret EXCEPT ![t] = Ok(Remaining(limit[t], cnt))]
          /\ allowed' = [allowed EXCEPT ![limiter[t]][ip[t]] = Append(@, Remaining(limit[t], cnt))]
    /\ ReleaseBoth(t)
    /\ pc' = [pc EXCEPT ![t] = "cu_done"]
    /\ method' = [method EXCEPT ![t] = NoMethod]
    /\ now' = [now EXCEPT ![t] = 0]
    /\ UNCHANGED <<last_reset, clockVars, ip, limiter, limit, rolled>>

\* the caller has the result; the task's locals go out of scope
ReturnCheckAndUpdate(t) ==
    /\ pc[t] = "cu_done"
    /\ pc' = [pc EXCEPT ![t] = "idle"]
    /\ ip' = [ip EXCEPT ![t] = NoIp]
    /\ limiter' = [limiter EXCEPT ![t] = NoClass]
    /\ limit' = [limit EXCEPT ![t] = 0]
    /\ ret' = [ret EXCEPT ![t] = NoRet]
    /\ rolled' = [rolled EXCEPT ![t] = FALSE]
    /\ UNCHANGED <<limiterVars, mutex, clockVars, method, now, allowed>>

CheckAndUpdateStep(t) ==
    \/ LockLastReset(t)
    \/ ClearRead(t)
    \/ ClearCreate(t)
    \/ ClearDelete(t)
    \/ SetLastReset(t)
    \/ Entry(t)
    \/ Deny(t)
    \/ Allow(t)

\* ========================================================= src/db.rs
ENCRYPTION_VERSION_CLIENT == 1
IdLen == 6                             \* .take(6)
U8 == 256                              \* `as u8` keeps the value modulo 2^8

Digits == <<"0", "1", "2", "3", "4", "5", "6", "7", "8", "9">>
Upper == {"A", "B", "C", "D", "E", "F", "G", "H", "I", "J", "K", "L", "M",
          "N", "O", "P", "Q", "R", "S", "T", "U", "V", "W", "X", "Y", "Z"}
Lower == {"a", "b", "c", "d", "e", "f", "g", "h", "i", "j", "k", "l", "m",
          "n", "o", "p", "q", "r", "s", "t", "u", "v", "w", "x", "y", "z"}
\* rand::distributions::Alphanumeric
Alphanumeric == Upper \cup Lower \cup {Digits[k] : k \in 1..10}

\* prefixes of the character streams thread_rng().sample_iter(&Alphanumeric)
\* yields in the runs modelled
SampleStreams == { <<"a", "B", "3", "d", "E", "6", "x">>,
                   <<"Z", "z", "0", "9", "A", "k", "Q">> }
Take(seq, n) == SubSeq(seq, 1, n)

\* an id one character short
GenerateIdShort(stream) == Take(stream, IdLen - 1)

\* sample_iter(&Alphanumeric).take(6).map(char::from).collect()
GenerateId(stream) == Take(stream, IdLen)

NoId == << >>
\* the ids a client may ask for: the ones the samples generate and another one
IdArgs == {GenerateId(st) : st \in SampleStreams} \cup { <<"n", "o", "n", "e">> }
Payloads == {"", "cipher"}
Languages == {"", "rust"}
\* Utc::now() is sampled on a whole second and one tick later
UtcPoints == {2 * TicksPerSec, 2 * TicksPerSec + 1}

\* rows that older versions or other writers left in data/pastes.db
LegacyVersions == {0, 1, 2, U8 + 1}
LegacyRows == [data : {"legacy"}, language : {"text"}, created_at : {1},
               encryption_version : LegacyVersions]
LegacyId == GenerateId(<<"a", "B", "3", "d", "E", "6", "x">>)

\* i64::to_string / u8::to_string, for the non-negative values bound here
RECURSIVE to_string(_)
to_string(n) ==
    IF n < 10 THEN <<Digits[n + 1]>>
    ELSE Append(to_string(n \div 10), Digits[(n % 10) + 1])

DigitValue(ch) == CHOOSE k \in 0..9 : Digits[k + 1] = ch

\* SQLite stores a text of decimal digits bound to an INTEGER column as the
\* integer it spells
RECURSIVE IntegerAffinity(_)
IntegerAffinity(text) ==
    IF Len(text) = 1 THEN DigitValue(text[1])
    ELSE 10 * IntegerAffinity(SubSeq(text, 1, Len(text) - 1)) + DigitValue(text[Len(text)])

\* DateTime::timestamp(): whole seconds since the epoch
Timestamp(dt) == dt \div TicksPerSec

\* DateTime::from_timestamp(secs, 0); every value of the model is in range
FromTimestamp(secs) == secs * TicksPerSec

\* stmt.read::<i64, _>(3).ok().unwrap_or(0) as u8
AsU8(v) == v % U8

\* the emptiness test taken on the wrong field
IsEmptyOrUntagged(payload, lang) == payload = "" /\ lang = ""

\* paste_data.data.is_empty()
IsEmpty(payload, lang) == payload = ""

NoReq == [method |-> NoMethod, id |-> << >>, data |-> "", language |-> ""]
NoPaste == [id |-> NoId, data |-> "", language |-> "", created_at |-> 0, encryption_version |-> 0]
NoDbRet == [tag |-> "none", paste |-> NoPaste]
DbRet(tag, paste) == [tag |-> tag, paste |-> paste]

\* the row INSERT ... VALUES (?, ?, ?, ?, ?) writes
InsertedRow(payload, lang, dt) ==
    [data |-> payload, language |-> lang,
     created_at |-> IntegerAffinity(to_string(Timestamp(dt))),
     encryption_version |-> IntegerAffinity(to_string(ENCRYPTION_VERSION_CLIENT))]

\* if encryption_version == ENCRYPTION_VERSION_CLIENT
VersionServable(v) == AsU8(v) = ENCRYPTION_VERSION_CLIENT

\* Database::get_paste over get_encrypted_paste, on a usable connection
GetPaste(table, i) ==
    IF i \in DOMAIN table /\ VersionServable(table[i].encryption_version)
    THEN DbRet("Some", [id |-> i, data |-> table[i].data, language |-> table[i].language,
                        created_at |-> FromTimestamp(table[i].created_at),
                        encryption_version |-> ENCRYPTION_VERSION_CLIENT])
    ELSE DbRet("None", NoPaste)

\* a DELETE that lost its WHERE clause
RemoveEveryRow(table, i) == EmptyMap

\* DELETE FROM pastes WHERE id = ?
RemoveRow(table, i) == [k \in DOMAIN table \ {i} |-> table[k]]

DbInit ==
    /\ pastes \in {EmptyMap} \cup {(LegacyId :> r) : r \in LegacyRows}
    /\ poisoned = FALSE
    /\ utc = 2 * TicksPerSec
    /\ op = [t \in Threads |-> "-"]
    /\ id = [t \in Threads |-> NoId]
    /\ data = [t \in Threads |-> ""]
    /\ language = [t \in Threads |-> ""]
    /\ created_at = [t \in Threads |-> 0]
    /\ dbret = [t \in Threads |-> NoDbRet]
    /\ stmt_err = [t \in Threads |-> FALSE]
    /\ created = EmptyMap
    /\ expect = [t \in Threads |-> NoPaste]
    /\ req = [t \in Threads |-> NoReq]
    /\ reset_after = [t \in Threads |-> 0]
    /\ status = [t \in Threads |-> 0]

UtcTick ==
    /\ \E p \in UtcPoints : p > utc /\ utc' = p
    /\ UNCHANGED <<pc, storeVars, callVars, created, expect>>

\* Database::create_paste up to its return or its call of
\* store_client_encrypted_paste: the id and Utc::now() are taken first
CreatePaste(t, payload, lang, stream) ==
    /\ op' = [op EXCEPT ![t] = "create"]
    /\ id' = [id EXCEPT ![t] = GenerateId(stream)]
    /\ data' = [data EXCEPT ![t] = payload]
    /\ language' = [language EXCEPT ![t] = lang]
    /\ created_at' = [created_at EXCEPT ![t] = utc]
    /\ IF ~IsEmpty(payload, lang)
       THEN /\ pc' = [pc EXCEPT ![t] = "db_store"]
            /\ dbret' = [dbret EXCEPT ![t] = NoDbRet]
       ELSE /\ pc' = [pc EXCEPT ![t] = "db_done"]
            /\ dbret' = [dbret EXCEPT ![t] = DbRet("ClientEncryptionRequired", NoPaste)]
    /\ UNCHANGED <<storeVars, utc, stmt_err, created, expect>>

\* what sqlite3_step answers for a statement: it ran, or the storage engine
\* failed it (I/O error, full disk, locked or corrupt file)
StepResults == {"Ok", "Err"}

\* Database::store_client_encrypted_paste: lock().unwrap() panics on a poisoned
\* mutex; a failed INSERT (a PRIMARY KEY conflict or a storage failure) panics
\* in expect() with the guard held, which poisons the mutex
StoreClientEncryptedPaste(t) ==
    /\ pc[t] = "db_store"
    /\ pc' = [pc EXCEPT ![t] = "db_done"]
    /\ IF poisoned
       THEN /\ dbret' = [dbret EXCEPT ![t] = DbRet("panic", NoPaste)]
            /\ UNCHANGED <<storeVars, stmt_err, created>>
       ELSE \E step \in StepResults :
            /\ stmt_err' = [stmt_err EXCEPT ![t] = (step = "Err")]
            /\ IF step = "Err" \/ id[t] \in DOMAIN pastes
               THEN /\ dbret' = [dbret EXCEPT ![t] = DbRet("panic", NoPaste)]
                    /\ poisoned' = TRUE
                    /\ UNCHANGED <<pastes, created>>
               ELSE LET paste == [id |-> id[t], data |-> data[t], language |-> language[t],
                                  created_at |-> created_at[t],
                                  encryption_version |-> ENCRYPTION_VERSION_CLIENT]
                    IN /\ pastes' = (id[t] :> InsertedRow(data[t], language[t], created_at[t])) @@ pastes
                       /\ dbret' = [dbret EXCEPT ![t] = DbRet("Ok", paste)]
                       /\ created' = (id[t] :> paste) @@ created
                       /\ UNCHANGED poisoned
    /\ UNCHANGED <<utc, op, id, data, language, created_at, expect>>

\* Database::get_paste(id): every failure of the statement ends in `.ok()?`,
\* that is in None
GetPasteCall(t, i) ==
    /\ op' = [op EXCEPT ![t] = "get"]
    /\ id' = [id EXCEPT ![t] = i]
    /\ pc' = [pc EXCEPT ![t] = "db_done"]
    /\ IF poisoned
       THEN /\ dbret' = [dbret EXCEPT ![t] = DbRet("panic", NoPaste)]
            /\ UNCHANGED stmt_err
       ELSE \E step \in StepResults :
            /\ stmt_err' = [stmt_err EXCEPT ![t] = (step = "Err")]
            /\ dbret' = [dbret EXCEPT ![t] =
                           IF step = "Err" THEN DbRet("None", NoPaste) ELSE GetPaste(pastes, i)]
    /\ expect' = [expect EXCEPT ![t] = IF i \in DOMAIN created THEN created[i] ELSE NoPaste]
    /\ UNCHANGED <<storeVars, utc, data, language, created_at, created>>

\* Database::delete_paste(id): true whenever the DELETE statement ran, false
\* when stmt.next() is an Err
DeletePasteCall(t, i) ==
    /\ op' = [op EXCEPT ![t] = "delete"]
    /\ id' = [id EXCEPT ![t] = i]
    /\ pc' = [pc EXCEPT ![t] = "db_done"]
    /\ IF poisoned
       THEN /\ dbret' = [dbret EXCEPT ![t] = DbRet("panic", NoPaste)]
            /\ UNCHANGED <<pastes, created, stmt_err>>
       ELSE \E step \in StepResults :
            /\ stmt_err' = [stmt_err EXCEPT ![t] = (step = "Err")]
            /\ IF step = "Err"
               THEN /\ dbret' = [dbret EXCEPT ![t] = DbRet("false", NoPaste)]
                    /\ UNCHANGED <<pastes, created>>
               ELSE /\ dbret' = [dbret EXCEPT ![t] = DbRet("true", NoPaste)]
                    /\ pastes' = RemoveRow(pastes, i)
                    /\ created' = RemoveRow(created, i)
    /\ UNCHANGED <<poisoned, utc, data, language, created_at, expect>>

\* a caller of the repository
CallCreatePaste(t) ==
    /\ pc[t] = "idle"
    /\ \E payload \in Payloads, lang \in Languages, stream \in SampleStreams :
          CreatePaste(t, payload, lang, stream)

CallGetPaste(t) ==
    /\ pc[t] = "idle"
    /\ \E i \in IdArgs : GetPasteCall(t, i)

CallDeletePaste(t) ==
    /\ pc[t] = "idle"
    /\ \E i \in IdArgs : DeletePasteCall(t, i)

ClearCall(t) ==
    /\ op' = [op EXCEPT ![t] = "-"]
    /\ id' = [id EXCEPT ![t] = NoId]
    /\ data' = [data EXCEPT ![t] = ""]
    /\ language' = [language EXCEPT ![t] = ""]
    /\ created_at' = [created_at EXCEPT ![t] = 0]
    /\ dbret' = [dbret EXCEPT ![t] = NoDbRet]
    /\ stmt_err' = [stmt_err EXCEPT ![t] = FALSE]
    /\ expect' = [expect EXCEPT ![t] = NoPaste]

ReturnDb(t) ==
    /\ pc[t] = "db_done"
    /\ pc' = [pc EXCEPT ![t] = "idle"]
    /\ ClearCall(t)
    /\ UNCHANGED <<storeVars, utc, created>>

\* ================================================= src/main.rs, the pipeline
TOO_MANY_REQUESTS == 429
\* the task was torn down by a panic before a response was built
Aborted == 0 - 1

\* the requests a client sends: POST with a body, GET and DELETE with an id
\* in the path, and a method no route is registered for
Requests ==
    [method : {"POST"}, id : {NoId}, data : Payloads, language : Languages]
      \cup [method : {"GET", "DELETE"}, id : IdArgs, data : {""}, language : {""}]
      \cup [method : {"PUT"}, id : {NoId}, data : {""}, language : {""}]

\* the pipeline is followed for the requests of one client
HttpIps == {"ip1"}

\* a middleware that runs the handler whatever the limiter answered
ProceedsAlways(r) == TRUE

\* match rate_limiter.check_and_update(&ip, &method) { Ok(remaining) => ...
Proceeds(r) == r.tag = "Ok"

\* rate_limit: the client ip and the method are taken from the request and
\* check_and_update is entered
Request(t) ==
    /\ pc[t] = "idle"
    /\ \E i \in HttpIps, r \in Requests :
         /\ ip' = [ip EXCEPT ![t] = i]
         /\ method' = [method EXCEPT ![t] = r.method]
         /\ req' = [req EXCEPT ![t] = r]
    /\ now' = [now EXCEPT ![t] = instant]
    /\ pc' = [pc EXCEPT ![t] = "cu_lock"]
    /\ UNCHANGED <<limiterVars, mutex, clockVars, limiter, limit, ret, histVars,
                   dbVars, reset_after, status>>

\* Err(reset_after) => 429 Too Many Requests
RateLimitErr(t) ==
    /\ pc[t] = "cu_done"
    /\ ~Proceeds(ret[t])
    /\ status' = [status EXCEPT ![t] = TOO_MANY_REQUESTS]
    /\ reset_after' = [reset_after EXCEPT ![t] = ret[t].val]
    /\ pc' = [pc EXCEPT ![t] = "responded"]
    /\ UNCHANGED <<rlVars, dbVars, req>>

\* Ok(remaining) => next.run(req): the router picks the handler, which calls
\* the repository (create_paste answers an empty payload itself)
NextRun(t) ==
    /\ pc[t] = "cu_done"
    /\ Proceeds(ret[t])
    /\ CASE req[t].method = "POST" /\ req[t].data = "" ->
              /\ status' = [status EXCEPT ![t] = 400]
              /\ pc' = [pc EXCEPT ![t] = "handled"]
              /\ UNCHANGED dbVars
         [] req[t].method = "POST" /\ req[t].data # "" ->
              /\ \E stream \in SampleStreams :
                    CreatePaste(t, req[t].data, req[t].language, stream)
              /\ UNCHANGED status
         [] req[t].method = "GET" ->
              /\ GetPasteCall(t, req[t].id)
              /\ UNCHANGED status
         [] req[t].method = "DELETE" ->
              /\ DeletePasteCall(t, req[t].id)
              /\ UNCHANGED status
         [] OTHER ->
              /\ status' = [status EXCEPT ![t] = 405]
              /\ pc' = [pc EXCEPT ![t] = "handled"]
              /\ UNCHANGED dbVars
    /\ UNCHANGED <<rlVars, req, reset_after>>

\* the handler turns the repository's answer into a response; create_paste
\* catches a panic, get_paste and delete_paste do not
HandlerStatus(o, r) ==
    CASE o = "create" /\ r.tag = "Ok" -> 201
      [] o = "create" -> 500
      [] r.tag = "panic" -> Aborted
      [] o = "get" /\ r.tag = "Some" -> 200
      [] o = "delete" /\ r.tag = "true" -> 204
      [] OTHER -> 404

HandlerReturn(t) ==
    /\ pc[t] = "db_done"
    /\ status' = [status EXCEPT ![t] = HandlerStatus(op[t], dbret[t])]
    /\ pc' = [pc EXCEPT ![t] = IF dbret[t].tag = "panic" /\ op[t] # "create"
                                THEN "responded" ELSE "handled"]
    /\ UNCHANGED <<rlVars, dbVars, req, reset_after>>

\* AppRateLimiter::get_reset_time:  let now = Instant::now();
CallGetResetTime(t) ==
    /\ pc[t] = "handled"
    /\ now' = [now EXCEPT ![t] = instant]
    /\ pc' = [pc EXCEPT ![t] = "grt_lock"]
    /\ UNCHANGED <<limiterVars, mutex, clockVars, ip, method, limiter, limit, ret, histVars,
                   dbVars, httpVars>>

\* a task calls get_reset_time() on its own:  let now = Instant::now();
EnterGetResetTime(t) ==
    /\ pc[t] = "idle"
    /\ now' = [now EXCEPT ![t] = instant]
    /\ pc' = [pc EXCEPT ![t] = "grt_lock"]
    /\ UNCHANGED <<limiterVars, mutex, clockVars, ip, method, limiter, limit, ret, histVars,
                   dbVars, httpVars>>

\* a get_reset_time that rolls the window over when it finds it elapsed
GetResetTimeRolling(t) ==
    /\ pc[t] = "grt_lock"
    /\ CanLock("last_reset")
    /\ reset_after' = [reset_after EXCEPT ![t] = RetryAfter(now[t], last_reset)]
    /\ last_reset' = IF ResetDue(now[t], last_reset) THEN now[t] ELSE last_reset
    /\ pc' = [pc EXCEPT ![t] = "responded"]
    /\ UNCHANGED <<read_limiter, create_limiter, delete_limiter, mutex, clockVars,
                   ip, method, now, limiter, limit, ret, histVars, dbVars, req, status>>

\* let last_reset = *self.last_reset.lock().unwrap();  (the guard is a
\* temporary)  self.reset_interval.saturating_sub(elapsed).as_secs() as u32
GetResetTime(t) ==
    /\ pc[t] = "grt_lock"
    /\ CanLock("last_reset")
    /\ reset_after' = [reset_after EXCEPT ![t] = RetryAfter(now[t], last_reset)]
    /\ pc' = [pc EXCEPT ![t] = "responded"]
    /\ UNCHANGED <<rlVars, dbVars, req, status>>

\* the response is sent and the task ends
Respond(t) ==
    /\ pc[t] = "responded"
    /\ pc' = [pc EXCEPT ![t] = "idle"]
    /\ ip' = [ip EXCEPT ![t] = NoIp]
    /\ method' = [method EXCEPT ![t] = NoMethod]
    /\ now' = [now EXCEPT ![t] = 0]
    /\ limiter' = [limiter EXCEPT ![t] = NoClass]
    /\ limit' = [limit EXCEPT ![t] = 0]
    /\ ret' = [ret EXCEPT ![t] = NoRet]
    /\ rolled' = [rolled EXCEPT ![t] = FALSE]
    /\ ClearCall(t)
    /\ req' = [req EXCEPT ![t] = NoReq]
    /\ reset_after' = [reset_after EXCEPT ![t] = 0]
    /\ status' = [status EXCEPT ![t] = 0]
    /\ UNCHANGED <<limiterVars, mutex, clockVars, allowed, storeVars, utc, created>>

\* ============================================================ specifications
\* main: Database::new() and AppRateLimiter::new(...)
InitAll == LimiterInit /\ DbInit

\* the rate limiter under concurrent calls of check_and_update; the table,
\* which these calls never touch, starts empty
Init == InitAll /\ pastes = EmptyMap

Next ==
    \/ Tick /\ UNCHANGED <<dbVars, httpVars>>
    \/ \E t \in Threads : CallCheckAndUpdate(t) /\ UNCHANGED <<dbVars, httpVars>>
    \/ \E t \in Threads : CheckAndUpdateStep(t) /\ UNCHANGED <<dbVars, httpVars>>
    \/ \E t \in Threads : ReturnCheckAndUpdate(t) /\ UNCHANGED <<dbVars, httpVars>>

Spec == Init /\ [][Next]_vars

\* the repository under concurrent callers
NextDb ==
    \/ UtcTick /\ UNCHANGED <<rlVars, httpVars>>
    \/ \E t \in Threads : CallCreatePaste(t) /\ UNCHANGED <<rlVars, httpVars>>
    \/ \E t \in Threads : StoreClientEncryptedPaste(t) /\ UNCHANGED <<rlVars, httpVars>>
    \/ \E t \in Threads : CallGetPaste(t) /\ UNCHANGED <<rlVars, httpVars>>
    \/ \E t \in Threads : CallDeletePaste(t) /\ UNCHANGED <<rlVars, httpVars>>
    \/ \E t \in Threads : ReturnDb(t) /\ UNCHANGED <<rlVars, httpVars>>

SpecDb == InitAll /\ [][NextDb]_vars

\* the request pipeline: rate_limit around the handlers around the repository
HttpThreads == {"t1"}

NextHttp ==
    \/ Tick /\ UNCHANGED <<dbVars, httpVars>>
    \/ \E t \in HttpThreads : Request(t)
    \/ \E t \in HttpThreads : CheckAndUpdateStep(t) /\ UNCHANGED <<dbVars, httpVars>>
    \/ \E t \in HttpThreads : RateLimitErr(t)
    \/ \E t \in HttpThreads : NextRun(t)
    \/ \E t \in HttpThreads : StoreClientEncryptedPaste(t) /\ UNCHANGED <<rlVars, httpVars>>
    \/ \E t \in HttpThreads : HandlerReturn(t)
    \/ \E t \in HttpThreads : CallGetResetTime(t)
    \/ \E t \in HttpThreads : GetResetTime(t)
    \/ \E t \in HttpThreads : Respond(t)

SpecHttp == InitAll /\ [][NextHttp]_vars

\* the rate limiter under concurrent calls of check_and_update and of
\* get_reset_time, followed for the calls of one client
LimiterCalls == {"ip1"} \X {"GET", "POST", "DELETE"}

NextLimiter ==
    \/ Tick /\ UNCHANGED <<dbVars, httpVars>>
    \/ \E t \in Threads : CallCheckAndUpdateOf(t, LimiterCalls) /\ UNCHANGED <<dbVars, httpVars>>
    \/ \E t \in Threads : CheckAndUpdateStep(t) /\ UNCHANGED <<dbVars, httpVars>>
    \/ \E t \in Threads : ReturnCheckAndUpdate(t) /\ UNCHANGED <<dbVars, httpVars>>
    \/ \E t \in Threads : EnterGetResetTime(t)
    \/ \E t \in Threads : GetResetTime(t)
    \/ \E t \in Threads : Respond(t)

\* the steps of a task that is inside a call; the scheduler runs every task
\* that can take a step (a task waiting for a mutex can take one only while
\* the mutex is free: std::sync::Mutex promises no order among waiters)
TaskStep(t) ==
    \/ CheckAndUpdateStep(t) /\ UNCHANGED <<dbVars, httpVars>>
    \/ ReturnCheckAndUpdate(t) /\ UNCHANGED <<dbVars, httpVars>>
    \/ GetResetTime(t)
    \/ Respond(t)

SpecLimiter ==
    /\ Init
    /\ [][NextLimiter]_vars
    /\ \A t \in Threads : WF_vars(TaskStep(t))

\* ---------------------------------------------------------- properties
InCall(t) == mutex["last_reset"] = t
Counts == [c \in Classes |-> [i \in Ips |-> Count(Limiter(c), i)]]
Distinct(seq) == \A j, k \in 1..Len(seq) : j # k => seq[j] # seq[k]

\* C1: in every reachable state, under every interleaving of check_and_update
\* calls, the stored count of every client in every class map is at most the
\* class's limit, and no client has been allowed more than `limit` requests of
\* a class since the last rollover.
CountWithinLimit ==
    \A c \in Classes, i \in Ips :
        /\ Count(Limiter(c), i) <= LimitOf(c)
        /\ Len(allowed[c][i]) <= LimitOf(c)

\* a client has used up the read limit and the create limit
CountWithinLimitWitness ==
    \E i \in Ips :
        /\ Count(read_limiter, i) = read_limit
        /\ Count(create_limiter, i) = create_limit
        /\ Len(allowed["read"][i]) = read_limit

\* C2: within one window the i-th call of a client for a class returns
\* Ok(limit - i) for every i <= limit, and a call is denied only after limit
\* calls of that client and class were allowed in the window: k <= limit calls
\* are all allowed, with remaining falling by 1 per call down to limit - k.
FirstCallsAllowed ==
    /\ \A c \in Classes, i \in Ips :
          \A k \in 1..Len(allowed[c][i]) : allowed[c][i][k] = LimitOf(c) - k
    /\ \A t \in Threads :
          pc[t] = "cu_deny" => Len(allowed[limiter[t]][ip[t]]) >= LimitOf(limiter[t])

\* a client made read_limit reads in one window and got 1, then 0
FirstCallsAllowedWitness ==
    \E i \in Ips, t \in Threads :
        /\ allowed["read"][i] = <<read_limit - 1, read_limit - 2>>
        /\ pc[t] = "cu_done" /\ ip[t] = i /\ limiter[t] = "read"
        /\ ret[t] = Ok(read_limit - 2)

\* C3: a call that finds its client's count equal to the limit, with no
\* rollover due, ends in Err, and from the rollover check to the return of
\* that call no count of any client in any class changes.
DenialChangesNothing ==
    [][\A t \in Threads :
          ( /\ InCall(t)
            /\ pc[t] \in {"cu_lock_map", "cu_deny"}
            /\ Count(Limiter(ClassOf(method[t])), ip[t]) = LimitOf(ClassOf(method[t])) )
          => /\ Counts' = Counts
             /\ pc'[t] \in {"cu_lock_map", "cu_deny", "cu_done"}
             /\ pc'[t] = "cu_done" => ret'[t].tag = "Err"]_vars

\* a create was denied while a read of the other client is being counted
DenialChangesNothingWitness ==
    \E t \in Threads :
        /\ pc[t] = "cu_done" /\ ret[t].tag = "Err" /\ limiter[t] = "create"
        /\ Count(create_limiter, ip[t]) = create_limit
        /\ \E i \in Ips : i # ip[t] /\ Count(read_limiter, i) > 0

AllCleared == \A c \in Classes, i \in Ips : Count(Limiter(c), i) = 0

\* C4: a call whose now is reset_interval or more after last_reset clears all
\* three maps and sets last_reset to its now before its own count is looked
\* up (no call evaluates a count while a rollover is due for it), and that
\* call is then allowed with remaining = limit - 1.
RolloverGlobalLazy ==
    \A t \in Threads :
        /\ (InCall(t) /\ pc[t] \in {"cu_lock_map", "cu_incr", "cu_deny"})
              => now[t] - last_reset < reset_interval
        /\ (rolled[t] /\ pc[t] = "cu_lock_map")
              => (AllCleared /\ last_reset = now[t])
        /\ (rolled[t] /\ pc[t] = "cu_incr")
              => (Counts = [c \in Classes |-> [i \in Ips |-> 0]] /\ last_reset = now[t])
        /\ (rolled[t] /\ pc[t] = "cu_deny") => FALSE
        /\ (rolled[t] /\ pc[t] = "cu_done")
              => ret[t] = Ok(LimitOf(limiter[t]) - 1)

\* two windows after the start a call has reset the counters and was allowed
RolloverGlobalLazyWitness ==
    \E t \in Threads :
        /\ rolled[t] /\ pc[t] = "cu_done" /\ ret[t].tag = "Ok"
        /\ last_reset = 2 * reset_interval
        /\ \E i \in Ips : i # ip[t] /\ AllCleared = FALSE

\* C5: no lost updates: for every client and class the stored count equals the
\* number of calls allowed in the window, at most limit are allowed, the
\* allowed calls return pairwise distinct remaining values, and a call is
\* denied only when exactly limit calls were allowed and counted (so of N
\* calls in a window exactly min(N, limit) are allowed).
NoLostUpdates ==
    /\ \A c \in Classes, i \in Ips :
          /\ Count(Limiter(c), i) = Len(allowed[c][i])
          /\ Len(allowed[c][i]) <= LimitOf(c)
          /\ Distinct(allowed[c][i])
    /\ \A t \in Threads :
          pc[t] = "cu_deny"
              => /\ Len(allowed[limiter[t]][ip[t]]) = limit[t]
                 /\ Count(Limiter(limiter[t]), ip[t]) = limit[t]

\* two concurrent creates of one client: one allowed, the other denied
NoLostUpdatesWitness ==
    \E i \in Ips :
        /\ \A t \in Threads : pc[t] = "cu_done" /\ ip[t] = i /\ limiter[t] = "create"
        /\ \E t \in Threads : ret[t] = Ok(create_limit - 1)
        /\ \E t \in Threads : ret[t].tag = "Err"
        /\ Count(create_limiter, i) = create_limit

\* C6: in the request pipeline a repository operation is invoked for a
\* request only after check_and_update returned Ok for that request; a denied
\* request is answered with 429 and no step of it changes the store.
DeniedNeverReachesRepository ==
    [][\A t \in HttpThreads :
          /\ op'[t] # "-" => ret'[t].tag = "Ok"
          /\ ret'[t].tag = "Err" =>
               /\ pc'[t] \in {"cu_done", "responded"}
               /\ pc'[t] = "responded" => status'[t] = 429
          /\ (ret[t].tag = "Err" \/ ret'[t].tag = "Err")
                => (pastes' = pastes /\ poisoned' = poisoned)]_vars

\* a create was denied with 429 although the store holds a created paste
DeniedNeverReachesRepositoryWitness ==
    \E t \in HttpThreads :
        /\ pc[t] = "responded" /\ status[t] = 429 /\ req[t].method = "POST"
        /\ req[t].data # "" /\ op[t] = "-"
        /\ DOMAIN created # {}

\* C7: create with an empty payload returns ClientEncryptionRequired whatever
\* the language is, and the call changes neither the table nor the state of
\* the connection.
EmptyPayloadRejected ==
    [][\A t \in Threads :
          (pc[t] = "idle" /\ op'[t] = "create" /\ data'[t] = "")
              => /\ pc'[t] = "db_done"
                 /\ dbret'[t].tag = "ClientEncryptionRequired"
                 /\ pastes' = pastes /\ poisoned' = poisoned]_vars

\* an empty payload tagged "rust" was rejected while the table holds a row
EmptyPayloadRejectedWitness ==
    \E t \in Threads :
        /\ pc[t] = "db_done" /\ op[t] = "create" /\ data[t] = "" /\ language[t] = "rust"
        /\ dbret[t].tag = "ClientEncryptionRequired"
        /\ DOMAIN pastes # {}

\* C8: a create that succeeds returns a Paste whose id is 6 characters of
\* A-Z, a-z, 0-9, whose encryption_version is 1 and whose data and language
\* are the inputs, for a non-empty payload; and as long as no delete of the
\* id follows, the row under that id holds the same data and language and
\* encryption_version 1.
CreateEchoesInput ==
    /\ \A t \in Threads :
          (pc[t] = "db_done" /\ op[t] = "create" /\ dbret[t].tag = "Ok")
              => LET p == dbret[t].paste
                 IN /\ Len(p.id) = 6
                    /\ \A k \in 1..Len(p.id) : p.id[k] \in Upper \cup Lower \cup {Digits[d] : d \in 1..10}
                    /\ p.encryption_version = 1
                    /\ p.data = data[t] /\ p.language = language[t]
                    /\ data[t] # ""
    /\ \A i \in DOMAIN created :
          /\ i \in DOMAIN pastes
          /\ pastes[i].data = created[i].data
          /\ pastes[i].language = created[i].language
          /\ pastes[i].encryption_version = 1

\* a create of ("cipher", "rust") has returned and its row is in the table
CreateEchoesInputWitness ==
    \E t \in Threads :
        /\ pc[t] = "db_done" /\ op[t] = "create" /\ dbret[t].tag = "Ok"
        /\ dbret[t].paste.data = "cipher" /\ dbret[t].paste.language = "rust"
        /\ dbret[t].paste.id \in DOMAIN pastes

VersionGate ==
    [][\A t \in Threads :
          (pc[t] = "idle" /\ pc'[t] = "db_done" /\ op'[t] = "get")
              => /\ dbret'[t].tag = "Some" =>
                      /\ id'[t] \in DOMAIN pastes
                      /\ pastes[id'[t]].encryption_version = 1
                      /\ dbret'[t].paste.encryption_version = 1
                 /\ (id'[t] \in DOMAIN pastes /\ pastes[id'[t]].encryption_version # 1)
                      => dbret'[t].tag # "Some"]_vars

\* C11: on a usable connection whose statement runs, delete(id) returns true
\* exactly when a row with that id was present before the call, and returns
\* false, leaving the table as it was, when no row with that id exists (so a
\* second delete of the same id returns false).
DeleteReportsExistence ==
    [][\A t \in Threads :
          (pc[t] = "idle" /\ pc'[t] = "db_done" /\ op'[t] = "delete"
             /\ ~poisoned /\ ~stmt_err'[t])
              => /\ (dbret'[t].tag = "true") <=> (id'[t] \in DOMAIN pastes)
                 /\ id'[t] \notin DOMAIN pastes
                      => (dbret'[t].tag = "false" /\ pastes' = pastes)]_vars

\* C12: a delete of an id that has a row returns true and removes the row (no
\* tombstone is left); from then on a row with that id appears again only by
\* a create that generated the same id, and a get of an id without a row
\* returns nothing.  A call whose statement the storage engine failed is not
\* one of the claim's cases.
DeleteThenGetNothing ==
    [][\A t \in Threads :
          /\ (pc[t] = "idle" /\ pc'[t] = "db_done" /\ op'[t] = "delete"
                 /\ id'[t] \in DOMAIN pastes /\ ~stmt_err'[t])
                => (dbret'[t].tag = "true" /\ id'[t] \notin DOMAIN pastes')
          /\ (pc[t] = "idle" /\ pc'[t] = "db_done" /\ op'[t] = "get"
                 /\ id'[t] \notin DOMAIN pastes)
                => dbret'[t].tag \in {"None", "panic"}
          /\ \A i \in DOMAIN pastes' \ DOMAIN pastes :
                \E u \in Threads : pc[u] = "db_store" /\ op[u] = "create" /\ id[u] = i]_vars

\* C13: the insert of a create whose generated id already has a row fails and
\* leaves the table as it was, and a get of that id after the collision still
\* returns the earlier paste: the data, language, created_at and
\* encryption_version of the row that was there.
CollisionKeepsRow ==
    [][\A t \in Threads :
          /\ (pc[t] = "db_store" /\ pc'[t] = "db_done" /\ id[t] \in DOMAIN pastes)
                => (pastes' = pastes /\ dbret'[t].tag # "Ok")
          /\ \A u \in Threads :
                ( /\ pc[u] = "db_done" /\ op[u] = "create" /\ dbret[u].tag = "panic"
                  /\ ~stmt_err[u] /\ id[u] \in DOMAIN pastes
                  /\ pastes[id[u]].encryption_version = 1
                  /\ pc[t] = "idle" /\ pc'[t] = "db_done" /\ op'[t] = "get"
                  /\ id'[t] = id[u] /\ ~stmt_err'[t] )
                => /\ dbret'[t].tag = "Some"
                   /\ dbret'[t].paste.data = pastes[id[u]].data
                   /\ dbret'[t].paste.language = pastes[id[u]].language
                   /\ dbret'[t].paste.created_at = pastes[id[u]].created_at * TicksPerSec
                   /\ dbret'[t].paste.encryption_version = 1]_vars

\* C14: a call whose statement the storage engine failed does not return what
\* the operation returns for "not found" or for rejected input: get does not
\* return what it returns for an id without a row, delete does not return
\* false (its answer for a nonexistent id), and create does not return
\* ClientEncryptionRequired.
StorageErrorDistinct ==
    \A t \in Threads :
        (pc[t] = "db_done" /\ stmt_err[t])
            => /\ op[t] = "get" => dbret[t] # GetPaste(EmptyMap, id[t])
               /\ op[t] = "delete" => dbret[t].tag # "false"
               /\ op[t] = "create" => dbret[t].tag # "ClientEncryptionRequired"

\* C15: a call of check_and_update that is denied while its now is less than
\* reset_interval after last_reset returns Err(retry_after) with
\* retry_after > 0.
DenialRetryAfterPositive ==
    [][\A t \in Threads :
          (pc[t] = "cu_deny" /\ pc'[t] = "cu_done" /\ now[t] - last_reset < reset_interval)
              => (ret'[t].tag = "Err" /\ ret'[t].val > 0)]_vars

Max0(x) == IF x > 0 THEN x ELSE 0

\* C16, as stated: a get_reset_time call, also one concurrent with
\* check_and_update calls, changes neither last_reset nor any count and
\* returns max(0, reset_interval - (now - last_reset)) in whole seconds, for
\* the last_reset that check_and_update reads and writes.
ResetTimeExact ==
    [][\A t \in Threads :
          (pc[t] = "grt_lock" /\ pc'[t] = "responded")
              => /\ limiterVars' = limiterVars /\ mutex' = mutex
                 /\ reset_after'[t] =
                       Max0(reset_interval - (now[t] - last_reset)) \div TicksPerSec]_vars

\* C16, amended: a get_reset_time call, also one concurrent with
\* check_and_update calls, changes neither last_reset nor any count (it never
\* rolls the window over) and returns max(0, reset_interval - elapsed) in
\* whole seconds, rounded down, where elapsed is now - last_reset, taken as 0
\* when last_reset is later than the now the call sampled before it got the
\* lock; last_reset is the value check_and_update reads and writes.
ResetTimeReadOnly ==
    [][\A t \in Threads :
          (pc[t] = "grt_lock" /\ pc'[t] = "responded")
              => /\ limiterVars' = limiterVars /\ mutex' = mutex
                 /\ reset_after'[t] =
                       Max0(reset_interval - Max0(now[t] - last_reset)) \div TicksPerSec]_vars

\* get_reset_time has returned 0 for a window that has elapsed, the counts of
\* the window are still there, and a check_and_update call is about to start
ResetTimeReadOnlyWitness ==
    \E t, u \in Threads :
        /\ pc[t] = "responded" /\ reset_after[t] = 0
        /\ now[t] - last_reset >= reset_interval
        /\ ~AllCleared
        /\ pc[u] = "cu_lock"

RolloverPcs == {"cu_clear_read", "cu_clear_create", "cu_clear_delete", "cu_set_reset"}
CriticalPcs == RolloverPcs \cup {"cu_lock_map", "cu_incr", "cu_deny"}

\* C17: in every interleaving of check_and_update calls, the rollover check,
\* the clearing of the three maps, the update of last_reset and the call's
\* own read-check-increment are one critical section under the last_reset
\* lock: while a call is between its rollover check and its last_reset
\* update (maps partly cleared, or cleared with last_reset not yet written)
\* no other call is at its count, and a call at its count holds the lock.
RolloverAtomic ==
    /\ \A t \in Threads : pc[t] \in CriticalPcs => mutex["last_reset"] = t
    /\ \A t, u \in Threads :
          (t # u /\ pc[t] \in RolloverPcs) => pc[u] \notin CriticalPcs
    /\ \A t \in Threads :
          pc[t] \in {"cu_incr", "cu_deny"} => mutex[LockName(limiter[t])] = t

\* a rollover has cleared the read map but not yet the create map, where the
\* client of a waiting POST is at its limit
RolloverAtomicWitness ==
    \E t, u \in Threads :
        /\ pc[t] = "cu_clear_create" /\ read_limiter = EmptyMap
        /\ pc[u] = "cu_lock" /\ method[u] = "POST"
        /\ Count(create_limiter, ip[u]) = create_limit

\* C18: check_and_update takes the read map and the read limit for GET, the
\* create ones for POST, the delete ones for DELETE and the read ones for
\* any other method; picking the class changes no count, an allowed call
\* adds 1 to the count of its client in its class and changes no other
\* count, a denied call changes none, and any other change of a count is the
\* clearing of a map by a call that rolls the window over.
ClassSelectionIndependent ==
    [][\A t \in Threads :
          /\ (pc[t] = "cu_lock_map" /\ pc'[t] # "cu_lock_map")
                => /\ method[t] = "GET" => (limiter'[t] = "read" /\ limit'[t] = read_limit)
                   /\ method[t] = "POST" => (limiter'[t] = "create" /\ limit'[t] = create_limit)
                   /\ method[t] = "DELETE" => (limiter'[t] = "delete" /\ limit'[t] = delete_limit)
                   /\ method[t] \notin {"GET", "POST", "DELETE"}
                        => (limiter'[t] = "read" /\ limit'[t] = read_limit)
                   /\ Counts' = Counts
          /\ (pc[t] = "cu_incr" /\ pc'[t] = "cu_done")
                => Counts' = [Counts EXCEPT ![limiter[t]][ip[t]] = @ + 1]
          /\ (pc[t] = "cu_deny" /\ pc'[t] = "cu_done") => Counts' = Counts
          /\ (pc[t] \notin RolloverPcs /\ pc[t] # "cu_incr" /\ pc'[t] # pc[t])
                => Counts' = Counts]_vars

\* a PUT is about to be denied: its client used up the read limit and has
\* not created or deleted anything
ClassSelectionIndependentWitness ==
    \E t \in Threads :
        /\ pc[t] = "cu_deny" /\ method[t] = "PUT" /\ limiter[t] = "read"
        /\ Count(read_limiter, ip[t]) = read_limit
        /\ Count(create_limiter, ip[t]) = 0 /\ Count(delete_limiter, ip[t]) = 0
        /\ \E i \in Ips : i # ip[t] /\ Count(create_limiter, i) > 0

\* C19: no step of a repository operation changes a row that stays in the
\* table; a get leaves the table as it was; a create that succeeds adds
\* exactly one row, under its id, and leaves every other row as it was; a
\* delete(id) removes no row but the one under id; and a row leaves the table
\* only in a delete of its id.
StoredPastesImmutable ==
    [][/\ \A i \in DOMAIN pastes \cap DOMAIN pastes' : pastes'[i] = pastes[i]
       /\ \A t \in Threads :
             /\ (pc[t] = "idle" /\ pc'[t] = "db_done" /\ op'[t] = "get")
                   => pastes' = pastes
             /\ (pc[t] = "db_store" /\ pc'[t] = "db_done" /\ dbret'[t].tag = "Ok")
                   => /\ id[t] \notin DOMAIN pastes
                      /\ DOMAIN pastes' = DOMAIN pastes \cup {id[t]}
             /\ (pc[t] = "idle" /\ pc'[t] = "db_done" /\ op'[t] = "delete")
                   => /\ DOMAIN pastes \ {id'[t]} \subseteq DOMAIN pastes'
                      /\ DOMAIN pastes' \subseteq DOMAIN pastes
       /\ \A i \in DOMAIN pastes \ DOMAIN pastes' :
             \E t \in Threads : pc[t] = "idle" /\ op'[t] = "delete" /\ id'[t] = i]_vars

\* a create has added a second row to the table, and the first is a row of a
\* version get does not serve
StoredPastesImmutableWitness ==
    \E t \in Threads :
        /\ pc[t] = "db_done" /\ op[t] = "create" /\ dbret[t].tag = "Ok"
        /\ Cardinality(DOMAIN pastes) = 2
        /\ \E i \in DOMAIN pastes : i # id[t] /\ pastes[i].encryption_version = 2

MapLocks == {"read_limiter", "create_limiter", "delete_limiter"}
Waiting(t) == pc[t] \in {"cu_lock", "grt_lock"}
Returned(t) == pc[t] \in {"cu_done", "responded"}

\* C20, as stated: under weak fairness of the tasks' steps every call of
\* check_and_update and of get_reset_time eventually returns.
EveryCallReturns ==
    \A t \in Threads : Waiting(t) ~> Returned(t)

\* locks are taken in the order last_reset, then one class map: a task that
\* holds a map lock holds last_reset, no task holds two map locks, and a task
\* that is about to take a map lock finds the three of them free
LockOrder ==
    /\ \A n \in MapLocks : mutex[n] # NoThread => mutex["last_reset"] = mutex[n]
    /\ \A n, m \in MapLocks : (n # m /\ mutex[n] # NoThread) => mutex[m] = NoThread
    /\ \A t \in Threads :
          pc[t] \in RolloverPcs \cup {"cu_lock_map"}
              => \A n \in MapLocks : mutex[n] = NoThread

\* a task waits for last_reset only, holding no lock, and the holder of
\* last_reset is a task inside check_and_update that waits for nothing
NoWaitCycle ==
    \A t \in Threads :
        Waiting(t) => /\ \A n \in DOMAIN mutex : mutex[n] # t
                      /\ mutex["last_reset"] # NoThread
                            => pc[mutex["last_reset"]] \in CriticalPcs

\* C20, amended: the limiter is deadlock-free: the locks are taken in the
\* order above and no task waits for a lock while holding one; under weak
\* fairness of the tasks' steps a task that has taken last_reset returns,
\* and whenever a call waits for the lock some call returns.
DeadlockFree ==
    /\ [](LockOrder /\ NoWaitCycle)
    /\ \A t \in Threads : InCall(t) ~> Returned(t)
    /\ (\E t \in Threads : Waiting(t)) ~> (\E t \in Threads : Returned(t))

\* a call of get_reset_time waits for last_reset while a check_and_update
\* call that has rolled the window over holds it and is about to take a map
DeadlockFreeWitness ==
    \E t, u \in Threads :
        /\ pc[t] = "cu_lock_map" /\ rolled[t] /\ mutex["last_reset"] = t
        /\ pc[u] = "grt_lock"

\* C21: a create whose insert fails (its id collides with a row, or the
\* storage engine fails the statement) leaves the connection usable, and
\* every later call acquires it and completes: a get and a delete never end
\* in a panic, and a create ends in one only when its own insert failed.
FailedCreateKeepsService ==
    [][\A t \in Threads :
          /\ (pc[t] = "db_store" /\ pc'[t] = "db_done" /\ dbret'[t].tag = "panic")
                => /\ ~poisoned'
                   /\ (stmt_err'[t] \/ id[t] \in DOMAIN pastes)
          /\ (pc[t] = "idle" /\ pc'[t] = "db_done" /\ op'[t] \in {"get", "delete"})
                => dbret'[t].tag # "panic"]_vars
====
